---- MODULE Spec2Model ----
(***************************************************************************)
(* convert-label-tests.py: the rewrite of createElement(Label, ...) calls  *)
(* of one test file into JSX.  A text is a sequence of one-character       *)
(* strings, so that the substring tests, the splits, the strips and the    *)
(* two regular expressions are computed character by character.            *)
(***************************************************************************)
EXTENDS Integers, Sequences, FiniteSets, TLC

(***************************************************************************)
(* Bounds of the checked inputs.                                           *)
(***************************************************************************)
\* pieces of a text given to the simple-call rewrite
MaxPieces == 5
\* lines of a text given to the structured-call scan
MaxLines == 4
\* lines of the property bag of a structured call
MaxProps == 3

(***************************************************************************)
(* String primitives of Python used by the script.                         *)
(***************************************************************************)
\* the characters str.strip() removes and \s matches, among those of the inputs
WS == {" ", "\t", "\n", "\r"}

\* s[k-1:].startswith(p), k counted from 1
HasAt(s, p, k) ==
    /\ k >= 1
    /\ k + Len(p) - 1 <= Len(s)
    /\ SubSeq(s, k, k + Len(p) - 1) = p

\* p in s
Contains(s, p) == \E k \in 1..(Len(s) - Len(p) + 1) : HasAt(s, p, k)

\* s.count(c) for a single character c
Count(s, c) == Cardinality({k \in 1..Len(s) : s[k] = c})

Min(S) == CHOOSE x \in S : \A y \in S : x <= y
Max(S) == CHOOSE x \in S : \A y \in S : x >= y

\* the first position at or after k that holds c, Len(s) + 1 when there is none
IndexOf(s, c, k) ==
    LET at == {m \in k..Len(s) : s[m] = c}
    IN  IF at = {} THEN Len(s) + 1 ELSE Min(at)

\* the first position at or after k that holds no whitespace: where \s* stops
SkipWS(s, k) ==
    LET at == {m \in k..Len(s) : s[m] \notin WS}
    IN  IF at = {} THEN Len(s) + 1 ELSE Min(at)

\* the last position at or before k that holds no character of cs, 0 when none
SkipBack(s, cs, k) ==
    LET at == {m \in 1..k : s[m] \notin cs}
    IN  IF at = {} THEN 0 ELSE Max(at)

\* s.strip()
Strip(s) == SubSeq(s, SkipWS(s, 1), SkipBack(s, WS, Len(s)))

\* s.rstrip(c)
RStrip(s, c) == SubSeq(s, 1, SkipBack(s, {c}, Len(s)))

\* s.split(c): always at least one piece
RECURSIVE Split(_, _)
Split(s, c) ==
    LET k == IndexOf(s, c, 1)
    IN  IF k > Len(s) THEN <<s>>
        ELSE <<SubSeq(s, 1, k - 1)>> \o Split(SubSeq(s, k + 1, Len(s)), c)

\* sep.join(parts)
RECURSIVE Join(_, _)
Join(parts, sep) ==
    IF parts = <<>> THEN <<>>
    ELSE IF Len(parts) = 1 THEN parts[1]
    ELSE parts[1] \o sep \o Join(Tail(parts), sep)

(***************************************************************************)
(* Pattern 1: createElement(Label, null, "text") -> <Label>text</Label>    *)
(***************************************************************************)
NoMatch == [ok |-> FALSE]

\* r'createElement\(Label,\s*null,\s*"([^"]+)"\)' tried at position k.  Every
\* repetition of the pattern is followed by a character it cannot itself
\* match, so the greedy match is the only one.
MatchSimpleAt(s, k) ==
    LET a == k + Len(<<"c","r","e","a","t","e","E","l","e","m","e","n","t","(","L","a","b","e","l",",">>)
        b == SkipWS(s, a)
        c == b + Len(<<"n","u","l","l",",">>)
        d == SkipWS(s, c)
        e == IndexOf(s, "\"", d + 1)
    IN  IF /\ HasAt(s, <<"c","r","e","a","t","e","E","l","e","m","e","n","t","(","L","a","b","e","l",",">>, k)
           /\ HasAt(s, <<"n","u","l","l",",">>, b)
           /\ HasAt(s, <<"\"">>, d)
           /\ e > d + 1
           /\ HasAt(s, <<"\"",")">>, e)
        THEN [ok |-> TRUE, from |-> k, to |-> e + 1,
              whole |-> SubSeq(s, k, e + 1), group |-> SubSeq(s, d + 1, e - 1)]
        ELSE NoMatch

\* a replacement that writes the whole match back instead of its first group
ReplacementWholeMatch(m) == <<"<","L","a","b","e","l",">">> \o m.whole \o <<"<","/","L","a","b","e","l",">">>

\* r'<Label>\1</Label>'
Replacement(m) == <<"<","L","a","b","e","l",">">> \o m.group \o <<"<","/","L","a","b","e","l",">">>

\* re.sub: the matches left to right, none overlapping another, each replaced
\* and the text between them kept
RECURSIVE SubFrom(_, _)
SubFrom(s, k) ==
    LET at == {n \in k..Len(s) : MatchSimpleAt(s, n).ok}
    IN  IF at = {} THEN SubSeq(s, k, Len(s))
        ELSE LET m == MatchSimpleAt(s, Min(at))
             IN  SubSeq(s, k, m.from - 1) \o Replacement(m)
                 \o SubFrom(s, m.to + 1)

Pass1(s) == SubFrom(s, 1)

(***************************************************************************)
(* Pattern 2: createElement(Label, { props }, "text") over several lines   *)
(***************************************************************************)
\* 'createElement(' in line and 'Label' in line and '{' in line
IsCandidate(line) ==
    /\ Contains(line, <<"c","r","e","a","t","e","E","l","e","m","e","n","t","(">>)
    /\ Contains(line, <<"L","a","b","e","l">>)
    /\ Contains(line, <<"{">>)

\* lines[j].count('(') - lines[j].count(')')
ParenDelta(line) == Count(line, "(") - Count(line, ")")

\* r'createElement\(\s*Label,\s*\{([^}]+)\},\s*"([^"]+)"\s*\)' tried at position
\* k; as in Pattern 1 the greedy match is the only one
MatchCallAt(s, k) ==
    LET a == SkipWS(s, k + Len(<<"c","r","e","a","t","e","E","l","e","m","e","n","t","(">>))
        b == SkipWS(s, a + Len(<<"L","a","b","e","l",",">>))
        c == IndexOf(s, "}", b + 1)
        d == SkipWS(s, c + Len(<<"}",",">>))
        e == IndexOf(s, "\"", d + 1)
        f == SkipWS(s, e + 1)
    IN  IF /\ HasAt(s, <<"c","r","e","a","t","e","E","l","e","m","e","n","t","(">>, k)
           /\ HasAt(s, <<"L","a","b","e","l",",">>, a)
           /\ HasAt(s, <<"{">>, b)
           /\ c > b + 1
           /\ HasAt(s, <<"}",",">>, c)
           /\ HasAt(s, <<"\"">>, d)
           /\ e > d + 1
           /\ HasAt(s, <<"\"">>, e)
           /\ HasAt(s, <<")">>, f)
        THEN [ok |-> TRUE, group1 |-> SubSeq(s, b + 1, c - 1),
              group2 |-> SubSeq(s, d + 1, e - 1)]
        ELSE NoMatch

\* re.search: the match at the leftmost position that has one
SearchCall(text) ==
    LET at == {k \in 1..Len(text) : MatchCallAt(text, k).ok}
    IN  IF at = {} THEN NoMatch ELSE MatchCallAt(text, Min(at))

\* prop_line.split(':')[1].strip()
Val(prop_line) == Strip(Split(prop_line, ":")[2])

\* required / disabled: the bare name for true, name={val} otherwise
BoolProp(name, val) ==
    IF val = <<"t","r","u","e">> THEN name ELSE name \o <<"=","{">> \o val \o <<"}">>

\* the attributes one property line adds to props_list: none or one, by the
\* first branch of the if/elif chain whose substring test holds
PropOf(prop_line) ==
    IF ~(prop_line # <<>> /\ Contains(prop_line, <<":">>)) THEN <<>>
    ELSE IF \/ Contains(prop_line, <<"\"","d","a","t","a","-","t","e","s","t","i","d","\"",":">>)
            \/ Contains(prop_line, <<"'","d","a","t","a","-","t","e","s","t","i","d","'",":">>)
        THEN <<<<"d","a","t","a","-","t","e","s","t","i","d","=">> \o Val(prop_line)>>
    ELSE IF Contains(prop_line, <<"r","e","q","u","i","r","e","d",":">>)
        THEN <<BoolProp(<<"r","e","q","u","i","r","e","d">>, Val(prop_line))>>
    ELSE IF Contains(prop_line, <<"d","i","s","a","b","l","e","d",":">>)
        THEN <<BoolProp(<<"d","i","s","a","b","l","e","d">>, Val(prop_line))>>
    ELSE IF Contains(prop_line, <<"s","i","z","e",":">>)
        THEN <<<<"s","i","z","e","=">> \o Val(prop_line)>>
    ELSE IF Contains(prop_line, <<"c","l","a","s","s","N","a","m","e",":">>)
        THEN <<<<"c","l","a","s","s","N","a","m","e","=">> \o Val(prop_line)>>
    ELSE IF Contains(prop_line, <<"h","t","m","l","F","o","r",":">>)
        THEN <<<<"h","t","m","l","F","o","r","=">> \o Val(prop_line)>>
    ELSE IF Contains(prop_line, <<"i","d",":">>)
        THEN <<<<"i","d","=">> \o Val(prop_line)>>
    ELSE IF \/ Contains(prop_line, <<"\"","a","r","i","a","-","l","a","b","e","l","\"",":">>)
            \/ Contains(prop_line, <<"'","a","r","i","a","-","l","a","b","e","l","'",":">>)
        THEN <<<<"a","r","i","a","-","l","a","b","e","l","=">> \o Val(prop_line)>>
    ELSE IF \/ Contains(prop_line, <<"\"","a","r","i","a","-","d","e","s","c","r","i","b","e","d","b","y","\"",":">>)
            \/ Contains(prop_line, <<"'","a","r","i","a","-","d","e","s","c","r","i","b","e","d","b","y","'",":">>)
        THEN <<<<"a","r","i","a","-","d","e","s","c","r","i","b","e","d","b","y","=">> \o Val(prop_line)>>
    ELSE <<>>

\* prop_line.strip().rstrip(',')
PropLine(raw) == RStrip(Strip(raw), ",")

\* the lines the loop over props_text.split('\n') sees
PropLines(props_text) ==
    LET raw == Split(props_text, "\n")
    IN  [n \in 1..Len(raw) |-> PropLine(raw[n])]

\* props_list after the loop over the property lines
RECURSIVE PropsFrom(_)
PropsFrom(prop_lines) ==
    IF prop_lines = <<>> THEN <<>>
    ELSE PropOf(Head(prop_lines)) \o PropsFrom(Tail(prop_lines))

PropsList(props_text) == PropsFrom(PropLines(props_text))

\* an indent one tab short
indentTwoTabs == <<"\t","\t">>

\* indent = three tab characters
indent == <<"\t","\t","\t">>

\* a layout test that sends two attributes to the multi-line form
SingleLineBelowTwo(props_list) == Len(props_list) < 2

\* len(props_list) <= 2
SingleLine(props_list) == Len(props_list) <= 2

\* the lines the for loop adds to jsx, each ending in a line break
RECURSIVE PropRows(_)
PropRows(props_list) ==
    IF props_list = <<>> THEN <<>>
    ELSE indent \o <<"\t","\t">> \o Head(props_list) \o <<"\n">>
         \o PropRows(Tail(props_list))

\* Build JSX
BuildJsx(props_list, children_text) ==
    IF SingleLine(props_list)
    THEN indent \o <<"r","e","n","d","e","r","(","<","L","a","b","e","l"," ">> \o Join(props_list, <<" ">>) \o <<">">>
         \o children_text \o <<"<","/","L","a","b","e","l",">",")",";">>
    ELSE indent \o <<"r","e","n","d","e","r","(","\n">> \o indent \o <<"\t","<","L","a","b","e","l","\n">>
         \o PropRows(props_list)
         \o indent \o <<"\t",">","\n">> \o indent \o <<"\t","\t">> \o children_text
         \o <<"\n">> \o indent \o <<"\t","<","/","L","a","b","e","l",">",",","\n">> \o indent \o <<")",";">>

(***************************************************************************)
(* The texts the file is drawn from.                                       *)
(***************************************************************************)
SeqsUpTo(pool, n) == UNION {[1..m -> pool] : m \in 0..n}

\* pieces of simple calls, nested ones included
Pieces == {<<"c","r","e","a","t","e","E","l","e","m","e","n","t","(","L","a","b","e","l",","," ","n","u","l","l",","," ","\"">>, <<"N","a","m","e">>, <<"\"",")">>}

\* lines of structured calls, complete or not, and a line outside any call
ScanLines ==
    {<<"c","r","e","a","t","e","E","l","e","m","e","n","t","(","L","a","b","e","l",","," ","{">>, <<"}",","," ","\"","T","\"",")">>, <<"}",","," ","t",")">>, <<"f","(",")",";">>,
     <<"c","r","e","a","t","e","E","l","e","m","e","n","t","(","L","a","b","e","l",","," ","{","s","i","z","e",":"," ","1","}",","," ","\"","T","\"",")">>}

\* lines of a property bag
BagLines ==
    {<<" ","r","e","q","u","i","r","e","d",":"," ","t","r","u","e",",">>, <<" ","d","i","s","a","b","l","e","d",":"," ","f","a","l","s","e",",">>, <<" ","d","i","s","a","b","l","e","d",":"," ","a"," ","?"," ","b"," ",":"," ","c",",">>,
     <<" ","s","i","z","e",":"," ","\"","l","g","\"",",">>, <<" ","c","l","a","s","s","N","a","m","e",":"," ","\"","a",":","b","\"",",">>, <<" ","\"","d","a","t","a","-","t","e","s","t","i","d","\"",":"," ","\"","x","\"",",">>,
     <<" ","v","a","l","i","d",":"," ","t","r","u","e",",">>, <<" ","f","o","o",":"," ","1",",">>}

Pass1Inputs == {Join(p, <<>>) : p \in SeqsUpTo(Pieces, MaxPieces)}

ScanInputs == {Join(p, <<"\n">>) : p \in SeqsUpTo(ScanLines, MaxLines)}

\* the sequences among seqs that hold no element twice
Distinct(seqs) ==
    {p \in seqs : \A a, b \in DOMAIN p : a # b => p[a] # p[b]}

\* one structured call, its bag made of different lines
PropInputs ==
    {Join(<<<<"c","r","e","a","t","e","E","l","e","m","e","n","t","(","L","a","b","e","l",","," ","{">>>> \o p \o <<<<"}",","," ","\"","F","i","e","l","d","\"",")">>>>, <<"\n">>) :
        p \in Distinct(SeqsUpTo(BagLines, MaxProps))}

(***************************************************************************)
(* The script's variables, the file it rewrites, and its position.         *)
(***************************************************************************)
VARIABLES
    file,           \* packages/ui/src/Label/Label.test.tsx, lines 5 and 107
    content,        \* line 6, rewritten at lines 9 and 106
    lines,          \* line 17
    result,         \* line 18
    i,              \* line 19, the index of the while loop, counted from 0
    j,              \* line 31, the index of the for loop, counted from 0
    depth,          \* line 27
    start_line,     \* line 28
    full_call,      \* line 29
    match,          \* line 42, NoMatch for None
    props_list,     \* line 48
    children_text,  \* line 45
    jsx,            \* lines 89 to 94
    pc,             \* the statement the script is at
    units,          \* history: the input lines each addition to result stands
                    \* for (from, to, counted from 0) and what it added (out)
    iters           \* history: the iterations of the while loop completed

vars == <<file, content, lines, result, i, j, depth, start_line, full_call,
          match, props_list, children_text, jsx, pc, units, iters>>

scan_vars == <<j, depth, start_line, full_call>>
parse_vars == <<match, props_list, children_text, jsx>>

Init ==
    /\ file \in Pass1Inputs \cup ScanInputs \cup PropInputs
    /\ content = <<>>
    /\ lines = <<>>
    /\ result = <<>>
    /\ i = 0
    /\ j = 0
    /\ depth = 0
    /\ start_line = 0
    /\ full_call = <<>>
    /\ match = NoMatch
    /\ props_list = <<>>
    /\ children_text = <<>>
    /\ jsx = <<>>
    /\ pc = "read"
    /\ units = <<>>
    /\ iters = 0

\* content = f.read()
ReadFile ==
    /\ pc = "read"
    /\ content' = file
    /\ pc' = "sub"
    /\ UNCHANGED <<file, lines, result, i, scan_vars, parse_vars, units, iters>>

\* content = re.sub(...)
SimpleRewrite ==
    /\ pc = "sub"
    /\ content' = Pass1(content)
    /\ pc' = "split"
    /\ UNCHANGED <<file, lines, result, i, scan_vars, parse_vars, units, iters>>

\* lines = content.split('\n'); result = []; i = 0
SplitLines ==
    /\ pc = "split"
    /\ lines' = Split(content, "\n")
    /\ result' = <<>>
    /\ i' = 0
    /\ pc' = "scan"
    /\ UNCHANGED <<file, content, scan_vars, parse_vars, units, iters>>

\* what an addition to result added
Added(before, after) == SubSeq(after, Len(before) + 1, Len(after))

\* an index that stays where it is
NextIndexStuck(n) == n

\* i += 1
NextIndex(n) == n + 1

\* the else branch of the candidate test: result.append(line); i += 1
KeepLine ==
    /\ pc = "scan"
    /\ i < Len(lines)
    /\ ~IsCandidate(lines[i + 1])
    /\ result' = Append(result, lines[i + 1])
    /\ units' = Append(units, [from |-> i, to |-> i, out |-> Added(result, result')])
    /\ i' = NextIndex(i)
    /\ iters' = iters + 1
    /\ UNCHANGED <<file, content, lines, scan_vars, parse_vars, pc>>

\* a candidate line: depth = 0; start_line = i; full_call = []; j = i
StartSpan ==
    /\ pc = "scan"
    /\ i < Len(lines)
    /\ IsCandidate(lines[i + 1])
    /\ depth' = 0
    /\ start_line' = i
    /\ full_call' = <<>>
    /\ j' = i
    /\ pc' = "collect"
    /\ UNCHANGED <<file, content, lines, result, i, parse_vars, units, iters>>

\* one pass of for j in range(i, len(lines)): the break at depth 0 sets i = j;
\* past the last line the loop ends with i left at the start line
CollectLine ==
    /\ pc = "collect"
    /\ full_call' = Append(full_call, lines[j + 1])
    /\ depth' = depth + ParenDelta(lines[j + 1])
    /\ IF depth' = 0
       THEN /\ i' = j
            /\ j' = j
            /\ pc' = "parse"
       ELSE /\ i' = i
            /\ IF j + 1 < Len(lines)
               THEN j' = j + 1 /\ pc' = "collect"
               ELSE j' = j /\ pc' = "parse"
    /\ UNCHANGED <<file, content, lines, result, start_line, parse_vars, units,
                   iters>>

\* call_text = '\n'.join(full_call)
call_text == Join(full_call, <<"\n">>)

\* an emission that keeps the first line of the span only
KeepFirstLine(res, call) == Append(res, Head(call))

\* result.extend(full_call)
Extend(res, call) == res \o call

\* the match succeeded: props_list, jsx, result.append(jsx); i += 1
RewriteCall ==
    /\ pc = "parse"
    /\ SearchCall(call_text).ok
    /\ match' = SearchCall(call_text)
    /\ props_list' = PropsList(Strip(match'.group1))
    /\ children_text' = match'.group2
    /\ jsx' = BuildJsx(props_list', children_text')
    /\ result' = Append(result, jsx')
    /\ units' = Append(units, [from |-> start_line,
                               to |-> start_line + Len(full_call) - 1,
                               out |-> Added(result, result')])
    /\ i' = NextIndex(i)
    /\ iters' = iters + 1
    /\ pc' = "scan"
    /\ UNCHANGED <<file, content, lines, scan_vars>>

\* the match failed: result.extend(full_call); i += 1
KeepOriginal ==
    /\ pc = "parse"
    /\ ~SearchCall(call_text).ok
    /\ match' = NoMatch
    /\ result' = Extend(result, full_call)
    /\ units' = Append(units, [from |-> start_line,
                               to |-> start_line + Len(full_call) - 1,
                               out |-> Added(result, result')])
    /\ i' = NextIndex(i)
    /\ iters' = iters + 1
    /\ pc' = "scan"
    /\ UNCHANGED <<file, content, lines, scan_vars, props_list, children_text,
                   jsx>>

\* the while loop ends: content = '\n'.join(result); f.write(content)
WriteBack ==
    /\ pc = "scan"
    /\ i >= Len(lines)
    /\ content' = Join(result, <<"\n">>)
    /\ file' = content'
    /\ pc' = "done"
    /\ UNCHANGED <<lines, result, i, scan_vars, parse_vars, units, iters>>

Next ==
    \/ ReadFile
    \/ SimpleRewrite
    \/ SplitLines
    \/ KeepLine
    \/ StartSpan
    \/ CollectLine
    \/ RewriteCall
    \/ KeepOriginal
    \/ WriteBack

Spec == Init /\ [][Next]_vars

(***************************************************************************)
(* Vocabulary of the properties.                                           *)
(***************************************************************************)
Range(f) == {f[n] : n \in DOMAIN f}

\* the lines of the input from index a to index b, indices counted from 0
LinesOf(a, b) == SubSeq(lines, a + 1, b + 1)

\* what the additions to result recorded in us amount to, in order
RECURSIVE Flatten(_)
Flatten(us) == IF us = <<>> THEN <<>> ELSE Head(us).out \o Flatten(Tail(us))

\* '(' minus ')' over the lines a..b
RECURSIVE Balance(_, _)
Balance(a, b) ==
    IF b < a THEN 0 ELSE Balance(a, b - 1) + ParenDelta(lines[b + 1])

\* the property lines of the bag of the call matched last
BagLinesOf(m) == PropLines(Strip(m.group1))

\* the key of a property line: the word that ends at its first colon,
\* without quotes
KeyOf(pl) ==
    LET colon == IndexOf(pl, ":", 1)
        word == SkipBack(pl, WS, colon - 1)
        seps == {m \in 1..word : pl[m] \in WS \cup {"{", ",", "("}}
        from == IF seps = {} THEN 1 ELSE Max(seps) + 1
    IN  SelectSeq(SubSeq(pl, from, word), LAMBDA ch : ch \notin {"\"", "'"})

\* the whole text of a property line after its first colon, trimmed
ValueOf(pl) == Strip(SubSeq(pl, IndexOf(pl, ":", 1) + 1, Len(pl)))

HasColon(pl) == IndexOf(pl, ":", 1) <= Len(pl)

BooleanKeys == {<<"r","e","q","u","i","r","e","d">>, <<"d","i","s","a","b","l","e","d">>}

ValueKeys ==
    {<<"d","a","t","a","-","t","e","s","t","i","d">>, <<"a","r","i","a","-","l","a","b","e","l">>, <<"a","r","i","a","-","d","e","s","c","r","i","b","e","d","b","y">>, <<"s","i","z","e">>,
     <<"c","l","a","s","s","N","a","m","e">>, <<"h","t","m","l","F","o","r">>, <<"i","d">>}

Tabs(n) == [k \in 1..n |-> "\t"]

\* the rows of the block built last
Rows == Split(jsx, "\n")

\* a span collected by the scan and not recognised by the structured pattern
UnmatchedSpan(u) ==
    /\ IsCandidate(lines[u.from + 1])
    /\ ~SearchCall(Join(LinesOf(u.from, u.to), <<"\n">>)).ok

(***************************************************************************)
(* C1: a collected call span that does not match the structured pattern is *)
(* added to the result as its own lines, each unchanged and each a line of *)
(* its own, at the place of the span (stated of the addition made last,    *)
(* which every addition is in the state that follows it).                  *)
(***************************************************************************)
C1_UnmatchedSpanVerbatim ==
    units # <<>> =>
        LET u == units[Len(units)]
        IN  UnmatchedSpan(u) =>
                /\ u.out = LinesOf(u.from, u.to)
                /\ result = SubSeq(result, 1, Len(result) - Len(u.out)) \o u.out

\* a span of several lines was kept and the script has ended
C1_Witness ==
    /\ pc = "done"
    /\ \E n \in 1..Len(units) :
          UnmatchedSpan(units[n]) /\ units[n].to > units[n].from

(***************************************************************************)
(* C2, as stated: the simple-call rewrite applied to its own output        *)
(* changes nothing.                                                        *)
(***************************************************************************)
C2_Idempotent == pc = "split" => Pass1(content) = content

\* a simple call whose literal holds a <Label> element
NestedRewrite(s) ==
    \E k \in 1..Len(s) :
        /\ MatchSimpleAt(s, k).ok
        /\ Contains(MatchSimpleAt(s, k).group, <<"<","L","a","b","e","l",">">>)

(***************************************************************************)
(* C2, amended: the simple-call rewrite applied to its own output changes  *)
(* nothing unless that output holds a simple call with a <Label> element   *)
(* inside its literal (a call that was nested in the literal of another).  *)
(***************************************************************************)
C2_IdempotentUnlessNested ==
    (pc = "split" /\ ~NestedRewrite(content)) => Pass1(content) = content

\* the first application rewrote a call and left nothing for a second
C2_Witness ==
    /\ pc = "split"
    /\ content # file
    /\ ~NestedRewrite(content)
    /\ Pass1(content) = content

(***************************************************************************)
(* C3: when the script ends, the additions to the result stand for the     *)
(* input lines in order, each line in exactly one of them, and a line      *)
(* outside every span was added unchanged.                                 *)
(***************************************************************************)
C3_EveryLineOnce ==
    pc = "done" =>
        /\ result = Flatten(units)
        /\ units # <<>>
        /\ units[1].from = 0
        /\ units[Len(units)].to = Len(lines) - 1
        /\ \A n \in 1..(Len(units) - 1) : units[n + 1].from = units[n].to + 1
        /\ \A n \in 1..Len(units) :
              ~IsCandidate(lines[units[n].from + 1]) =>
                  /\ units[n].to = units[n].from
                  /\ units[n].out = <<lines[units[n].from + 1]>>

(***************************************************************************)
(* C4: a matched call with at most two attributes is built as the one-line *)
(* form; with three or more it is built as the multi-line form, one        *)
(* attribute to a row.                                                     *)
(***************************************************************************)
C4_LayoutByCount ==
    match.ok =>
        IF Len(props_list) <= 2
        THEN jsx = indent \o <<"r","e","n","d","e","r","(","<","L","a","b","e","l"," ">> \o Join(props_list, <<" ">>)
                   \o <<">">> \o children_text \o <<"<","/","L","a","b","e","l",">",")",";">>
        ELSE /\ Len(Rows) >= Len(props_list) + 2
             /\ Rows[1] = indent \o <<"r","e","n","d","e","r","(">>
             /\ Rows[2] = indent \o <<"\t","<","L","a","b","e","l">>
             /\ \A n \in 1..Len(props_list) :
                   Rows[2 + n] = indent \o <<"\t","\t">> \o props_list[n]
             /\ SubSeq(Rows, Len(props_list) + 3, Len(Rows)) =
                   Split(indent \o <<"\t",">","\n">> \o indent \o <<"\t","\t">>
                         \o children_text \o <<"\n">> \o indent
                         \o <<"\t","<","/","L","a","b","e","l",">",",","\n">> \o indent \o <<")",";">>, "\n")

\* a call with exactly two attributes was built
C4_Witness == match.ok /\ Len(props_list) = 2 /\ pc = "done"

(***************************************************************************)
(* C5: a property line whose key is required or disabled gives the bare    *)
(* key when its value is true, and key={value} with the whole value text   *)
(* of the line otherwise.                                                  *)
(***************************************************************************)
C5_BooleanProps ==
    match.ok =>
        \A pl \in Range(BagLinesOf(match)) :
            (HasColon(pl) /\ KeyOf(pl) \in BooleanKeys) =>
                (IF ValueOf(pl) = <<"t","r","u","e">> THEN KeyOf(pl)
                 ELSE KeyOf(pl) \o <<"=","{">> \o ValueOf(pl) \o <<"}">>)
                    \in Range(props_list)

(***************************************************************************)
(* C6: a matched call whose bag holds no recognized key has no attribute,  *)
(* and its tag and child text are built all the same.                      *)
(***************************************************************************)
C6_UnrecognizedOnly ==
    (/\ match.ok
     /\ \A pl \in Range(BagLinesOf(match)) :
           HasColon(pl) => KeyOf(pl) \notin BooleanKeys \cup ValueKeys)
    => /\ props_list = <<>>
       /\ jsx = indent \o <<"r","e","n","d","e","r","(","<","L","a","b","e","l"," ",">">> \o children_text
                \o <<"<","/","L","a","b","e","l",">",")",";">>

(***************************************************************************)
(* C7: a property line with a recognized key other than required and       *)
(* disabled gives key=value, the value being the whole text of the line    *)
(* after its first colon, trimmed.                                         *)
(***************************************************************************)
C7_ValueAfterFirstColon ==
    match.ok =>
        \A pl \in Range(BagLinesOf(match)) :
            (HasColon(pl) /\ KeyOf(pl) \in ValueKeys) =>
                (KeyOf(pl) \o <<"=">> \o ValueOf(pl)) \in Range(props_list)

\* the rows of a built block start with base tabs at the render( and );
\* rows, one more at the tag rows and two more at the attribute and child rows
IndentLevels(base) ==
    match.ok =>
        /\ Rows[1] = Tabs(base) \o SubSeq(Rows[1], base + 1, Len(Rows[1]))
        /\ HasAt(Rows[1], <<"r","e","n","d","e","r","(">>, base + 1)
        /\ Len(Rows) > 1 =>
              /\ Rows[Len(Rows)] = Tabs(base) \o <<")",";">>
              /\ Rows[2] = Tabs(base + 1) \o <<"<","L","a","b","e","l">>
              /\ \A n \in 1..Len(props_list) :
                    Rows[2 + n] = Tabs(base + 2) \o props_list[n]
              /\ Rows[Len(Rows) - 3] = Tabs(base + 1) \o <<">">>
              /\ Rows[Len(Rows) - 2] = Tabs(base + 2) \o children_text
              /\ Rows[Len(Rows) - 1] = Tabs(base + 1) \o <<"<","/","L","a","b","e","l",">",",">>

(***************************************************************************)
(* C8, as stated: every built block has a base indent of two tabs, each    *)
(* nesting level of the multi-line form adding one tab.                    *)
(***************************************************************************)
C8_BaseIndentTwoTabs == IndentLevels(2)

(***************************************************************************)
(* C8, amended: every built block has a base indent of three tabs, each    *)
(* nesting level of the multi-line form adding one tab.                    *)
(***************************************************************************)
C8_BaseIndentThreeTabs == IndentLevels(3)

\* a multi-line block was built
C8_Witness == match.ok /\ Len(props_list) >= 3 /\ Len(Rows) > 1

(***************************************************************************)
(* C9: a collected span starts at a candidate line and ends at the first   *)
(* line at which the parentheses counted from its start balance.           *)
(***************************************************************************)
C9_SpanEndsAtFirstBalance ==
    pc = "parse" =>
        /\ IsCandidate(lines[start_line + 1])
        /\ \E e \in start_line..(Len(lines) - 1) :
              /\ Balance(start_line, e) = 0
              /\ \A d \in start_line..(e - 1) : Balance(start_line, d) # 0
              /\ full_call = LinesOf(start_line, e)

\* the index the current iteration of the while loop started at
IterStart == IF pc = "parse" THEN start_line ELSE i

(***************************************************************************)
(* C10: every iteration of the while loop leaves the line index above the  *)
(* index it started at and at most at the number of lines, the iterations  *)
(* number at most the lines, and the for loop that collects a span stays   *)
(* within the lines from the start of the span on.                         *)
(***************************************************************************)
C10_ScanTerminates ==
    /\ [][iters' # iters => (i' > IterStart /\ i' <= Len(lines))]_vars
    /\ [](iters <= Len(lines))
    /\ [](pc = "collect" => (start_line <= j /\ j < Len(lines)))

\* the scan ended after a span whose parentheses never balanced
C10_Witness ==
    /\ pc = "done"
    /\ \E n \in 1..Len(units) :
          /\ IsCandidate(lines[units[n].from + 1])
          /\ Balance(units[n].from, units[n].to) # 0

====
